---------------------------- MODULE Spec2Model ----------------------------
(***************************************************************************)
(* Schema discovery and relationship resolution of the SharePoint schema   *)
(* generator: main.py (command line) and app.py (Flask form).              *)
(*                                                                         *)
(* The Metadata Source (Microsoft Graph behind requests.get) is the        *)
(* environment: every HTTP response is a nondeterministic choice.  A       *)
(* response is remembered per URL, so that a second run against the same   *)
(* source sees the same answers.                                           *)
(*                                                                         *)
(* Python values: a dict is a function from its keys (strings) to values,  *)
(* a list is a sequence, an insertion-ordered dict used as a map           *)
(* (lists_dict) is a sequence of [name, id] entries.  None in a string     *)
(* slot is the string NoneStr.                                             *)
(***************************************************************************)
EXTENDS Integers, Sequences, FiniteSets, TLC

VARIABLES
    entry,          \* which entry point runs: "main" (main.py) or "app" (app.py)
    pc,             \* position of the run
    source,         \* responses the source has given so far, per URL
    calls,          \* the HTTP requests issued by the run, in order
    lists_dict,     \* fetch_sharepoint_lists' result
    relationships,  \* generate_uml_graph's local list of candidate edges
    nodes,          \* graph.node(...) calls so far
    edges,          \* graph.edge(...) calls so far
    written,        \* the rendered graph was written to the output file
    first,          \* outcome of the command-line run, kept for comparison
    descriptor,     \* a raw field descriptor handed to get_column_type
    classified      \* what get_column_type returned for it

vars == <<entry, pc, source, calls, lists_dict, relationships, nodes, edges,
          written, first, descriptor, classified>>

-----------------------------------------------------------------------------
(* Bounds of the model *)

MaxLists == 2
MaxCols == 2

-----------------------------------------------------------------------------
(* Python helpers *)

NoneStr == "None"
EmptyDict == << >>

\* Python truthiness of an Optional[str]
Truthy(s) == s # NoneStr /\ s # ""

\* dict.get(key, default)
Get(d, key, default) == IF key \in DOMAIN d THEN d[key] ELSE default

SeqsUpTo(S, n) == UNION {[1..k -> S] : k \in 0..n}

\* the positions of string s at which sub occurs
Occurrences(s, sub) ==
    {p \in 1..(Len(s) - Len(sub) + 1) : SubSeq(s, p, p + Len(sub) - 1) = sub}

-----------------------------------------------------------------------------
(* Constants of the program *)

LISTS_TO_IGNORE_MAIN ==
    {"Documents", "Liens de partage", "Extensions de modèle web", "User",
     "Web Template Extensions"}

LISTS_TO_IGNORE_APP ==
    {"Documents", "Liens de partage", "Extensions de modèle web", "User"}

LISTS_TO_IGNORE(e) ==
    IF e = "main" THEN LISTS_TO_IGNORE_MAIN ELSE LISTS_TO_IGNORE_APP

COLUMNS_TO_IGNORE ==
    {"_ColorTag", "ComplianceAssetId", "_UIVersionString", "Attachments",
     "Edit", "LinkTitleNoMenu", "LinkTitle", "DocIcon", "ItemChildCount",
     "FolderChildCount", "_ComplianceFlags", "_ComplianceTag",
     "_ComplianceTagWrittenTime", "_ComplianceTagUserId", "_IsRecord",
     "AppAuthor", "AppEditor", "ID", "ContentType"}

\* COLUMN_PATTERN_TO_IGNORE = ".*x003a.*": the literal between the two ".*"
COLUMN_PATTERN_TO_IGNORE == "x003a"

\* re.match(COLUMN_PATTERN_TO_IGNORE, name): anchored at the start of name,
\* ".*" runs over any characters but a line break, then the literal; the
\* trailing ".*" may match nothing, so what follows the literal is free.
re_match(name) ==
    \E p \in Occurrences(name, COLUMN_PATTERN_TO_IGNORE) :
        \A q \in 1..(p - 1) : SubSeq(name, q, q) # "\n"

\* type_mappings of get_column_type, in the dict's insertion order
type_mappings ==
    <<"text", "lookup", "dateTime", "number", "choice", "boolean", "person",
      "calculated">>

-----------------------------------------------------------------------------
(* HTTP responses: requests.get + raise_for_status + json() *)

HttpError == [kind |-> "error"]
Json(d) == [kind |-> "json", body |-> d]
Unasked == [kind |-> "unasked"]

\* (variant: a failed GET is tried once more, so a call leaves two requests)
fetch_data_Retry(log, url) == Append(Append(log, url), url)

\* fetch_data issues one GET per call: the request log after a call to url
fetch_data(log, url) == Append(log, url)

\* fetch_data returns None on a RequestException and the decoded body
\* otherwise; "not data or 'value' not in data" on its result
NoUsableValue(resp) ==
    \/ resp.kind = "error"
    \/ DOMAIN resp.body = {}
    \/ "value" \notin DOMAIN resp.body

-----------------------------------------------------------------------------
(* What the source may answer *)

\* items of the collection listing: well-formed ones, among them two with
\* the same display name, one without 'displayName' and one without 'id'
ListItems ==
    {[displayName |-> "Orders", id |-> "L1"],
     [displayName |-> "Customers", id |-> "L2"],
     [displayName |-> "Orders", id |-> "L6"],
     [displayName |-> "Documents", id |-> "L3"],
     [displayName |-> "Web Template Extensions", id |-> "L4"],
     [id |-> "L5"],
     [displayName |-> "Tasks"]}

ListIds == {"L1", "L2", "L3", "L4", "L5", "L6"}

NoValueDict == [error |-> "x"]

ListResponses ==
    {HttpError, Json(EmptyDict), Json(NoValueDict)}
        \cup {Json([value |-> s]) : s \in SeqsUpTo(ListItems, MaxLists)}

\* field descriptors of the field listing, per collection of the site:
\* Orders (L1) has reference fields to Customers (L2), one of them named as
\* a system column and one with an encoded colon in its name, and a
\* reference to itself without 'name'; Customers has a text field and a
\* reference to Documents (L3); any other collection a text field.
\* Names are non-empty and hold no line break, ids are non-empty and
\* unique, as SharePoint issues them.
ColumnItems(list_id) ==
    IF list_id = "L1"
    THEN {[name |-> "CustomerRef", lookup |-> [listId |-> "L2"]],
          [name |-> "ID", lookup |-> [listId |-> "L2"]],
          [name |-> "Customer_x003a_Name", lookup |-> [listId |-> "L2"]],
          [lookup |-> [listId |-> "L1"]]}
    ELSE IF list_id = "L2"
    THEN {[name |-> "Title", text |-> [maxLength |-> "255"]],
          [name |-> "DocRef", lookup |-> [listId |-> "L3"]]}
    ELSE {[name |-> "Title", text |-> [maxLength |-> "255"]]}

ColumnResponses(list_id) ==
    {HttpError, Json(NoValueDict)}
        \cup {Json([value |-> s]) : s \in SeqsUpTo(ColumnItems(list_id), MaxCols)}

-----------------------------------------------------------------------------
(* get_column_type *)

\* (variant: the last matching key wins)
get_column_type_LastMatch(column) ==
    LET hits == {j \in 1..Len(type_mappings) : type_mappings[j] \in DOMAIN column}
    IN  IF hits = {}
        THEN [type |-> "unknown", details |-> EmptyDict]
        ELSE LET j == CHOOSE h \in hits : \A g \in hits : h >= g
             IN  [type |-> type_mappings[j], details |-> column[type_mappings[j]]]

get_column_type(column) ==
    LET hits == {j \in 1..Len(type_mappings) : type_mappings[j] \in DOMAIN column}
    IN  IF hits = {}
        THEN [type |-> "unknown", details |-> EmptyDict]
        ELSE LET j == CHOOSE h \in hits : \A g \in hits : h <= g
             IN  [type |-> type_mappings[j], details |-> column[type_mappings[j]]]

-----------------------------------------------------------------------------
(* fetch_sharepoint_lists *)

\* lists_dict[name] = id on an insertion-ordered dict: an existing key keeps
\* its position and takes the new value
DictSet(d, name, id) ==
    IF \E j \in 1..Len(d) : d[j].name = name
    THEN [j \in 1..Len(d) |->
             IF d[j].name = name THEN [name |-> name, id |-> id] ELSE d[j]]
    ELSE Append(d, [name |-> name, id |-> id])

\* (variant: the loop without the test against LISTS_TO_IGNORE)
RECURSIVE CollectLists_NoIgnore(_, _, _)
CollectLists_NoIgnore(items, e, d) ==
    IF items = << >> THEN d
    ELSE LET item == Head(items)
         IN  IF "displayName" \in DOMAIN item /\ "id" \in DOMAIN item
             THEN CollectLists_NoIgnore(Tail(items), e,
                                        DictSet(d, item.displayName, item.id))
             ELSE CollectLists_NoIgnore(Tail(items), e, d)

\* the loop over lists_data['value']
RECURSIVE CollectLists(_, _, _)
CollectLists(items, e, d) ==
    IF items = << >> THEN d
    ELSE LET item == Head(items)
         IN  IF "displayName" \in DOMAIN item /\ "id" \in DOMAIN item
             THEN IF item.displayName \notin LISTS_TO_IGNORE(e)
                  THEN CollectLists(Tail(items), e,
                                    DictSet(d, item.displayName, item.id))
                  ELSE CollectLists(Tail(items), e, d)
             ELSE CollectLists(Tail(items), e, d)

fetch_sharepoint_lists(resp, e) ==
    IF NoUsableValue(resp) THEN << >>
    ELSE CollectLists(resp.body.value, e, << >>)

-----------------------------------------------------------------------------
(* fetch_columns *)

\* (variant: only the name list is tested, not the pattern)
KeepColumn_ListOnly(col) ==
    Get(col, "name", "") \notin COLUMNS_TO_IGNORE

\* (variant: a descriptor without a name is dropped)
KeepColumn_RequireName(col) ==
    LET name == Get(col, "name", "")
    IN  name # "" /\ name \notin COLUMNS_TO_IGNORE /\ ~re_match(name)

\* the test of fetch_columns' loop
KeepColumn(col) ==
    LET name == Get(col, "name", "")
    IN  name \notin COLUMNS_TO_IGNORE /\ ~re_match(name)

ColumnEntry(col) ==
    [name |-> Get(col, "name", ""),
     id |-> Get(col, "id", NoneStr),
     required |-> Get(col, "required", FALSE),
     type_details |-> get_column_type(col)]

RECURSIVE CollectColumns(_)
CollectColumns(cols) ==
    IF cols = << >> THEN << >>
    ELSE IF KeepColumn(Head(cols))
         THEN <<ColumnEntry(Head(cols))>> \o CollectColumns(Tail(cols))
         ELSE CollectColumns(Tail(cols))

\* (variant: a failed listing gives a placeholder field)
fetch_columns_ErrorRow(resp) ==
    IF NoUsableValue(resp)
    THEN <<[name |-> "error", id |-> NoneStr, required |-> FALSE,
            type_details |-> [type |-> "unknown", details |-> EmptyDict]]>>
    ELSE CollectColumns(resp.body.value)

fetch_columns(resp) ==
    IF NoUsableValue(resp) THEN << >>
    ELSE CollectColumns(resp.body.value)

-----------------------------------------------------------------------------
(* generate_uml_graph *)

\* the rows appended to the label, one per column
RECURSIVE LabelRows(_)
LabelRows(columns) ==
    IF columns = << >> THEN << >>
    ELSE <<[name |-> Head(columns).name,
            type |-> Head(columns).type_details.type]>>
            \o LabelRows(Tail(columns))

\* the candidate relationships appended while the label is built
RECURSIVE LookupRelationships(_, _)
LookupRelationships(list_name, columns) ==
    IF columns = << >> THEN << >>
    ELSE LET column == Head(columns)
             list_id_lookup == Get(column.type_details.details, "listId", NoneStr)
             rest == LookupRelationships(list_name, Tail(columns))
         IN  IF column.type_details.type = "lookup" /\ Truthy(list_id_lookup)
             THEN <<[source |-> list_name, target |-> list_id_lookup,
                     column |-> column.name]>> \o rest
             ELSE rest

\* next((name for name, id_ in lists_dict.items() if id_ == target), None)
TargetTable(d, target_list_id) ==
    LET hits == {j \in 1..Len(d) : d[j].id = target_list_id}
    IN  IF hits = {} THEN NoneStr
        ELSE d[CHOOSE h \in hits : \A g \in hits : h <= g].name

\* (variant: a second edge between the same two tables is merged away)
RECURSIVE ResolveEdges_Merged(_, _)
ResolveEdges_Merged(d, rels) ==
    IF rels = << >> THEN << >>
    ELSE LET target_table == TargetTable(d, Head(rels).target)
             rest == ResolveEdges_Merged(d, Tail(rels))
         IN  IF /\ Truthy(target_table)
                /\ \A r \in 1..Len(rest) :
                    ~(/\ rest[r].source = Head(rels).source
                      /\ rest[r].target = target_table)
             THEN <<[source |-> Head(rels).source, target |-> target_table,
                     label |-> Head(rels).column]>> \o rest
             ELSE rest

\* (variant: without "if target_table", an unresolved target gives an edge
\* to None)
RECURSIVE ResolveEdges_Unchecked(_, _)
ResolveEdges_Unchecked(d, rels) ==
    IF rels = << >> THEN << >>
    ELSE <<[source |-> Head(rels).source,
            target |-> TargetTable(d, Head(rels).target),
            label |-> Head(rels).column]>>
            \o ResolveEdges_Unchecked(d, Tail(rels))

\* the loop over relationships
RECURSIVE ResolveEdges(_, _)
ResolveEdges(d, rels) ==
    IF rels = << >> THEN << >>
    ELSE LET target_table == TargetTable(d, Head(rels).target)
             rest == ResolveEdges(d, Tail(rels))
         IN  IF Truthy(target_table)
             THEN <<[source |-> Head(rels).source, target |-> target_table,
                     label |-> Head(rels).column]>> \o rest
             ELSE rest

-----------------------------------------------------------------------------
(* The run *)

NoRun == [pc |-> "none", lists_dict |-> << >>, nodes |-> << >>, edges |-> << >>]

NoSource == [lists |-> Unasked, columns |-> [id \in ListIds |-> Unasked]]

InitRun ==
    /\ pc = "start"
    /\ calls = << >>
    /\ lists_dict = << >>
    /\ relationships = << >>
    /\ nodes = << >>
    /\ edges = << >>
    /\ written = FALSE

Pending == [type |-> "pending", details |-> EmptyDict]

\* python main.py --token ... --site-id ...
Init ==
    /\ entry = "main"
    /\ source = NoSource
    /\ first = NoRun
    /\ descriptor = EmptyDict
    /\ classified = Pending
    /\ InitRun

\* (variant: main() without "if not lists_dict: return")
AfterFetch_NoCheck(d) == IF d = << >> THEN "edges" ELSE "tables"

\* "if not lists_dict: return" of main(), the redirect of index()
AfterFetch(d) == IF d = << >> THEN "halted" ELSE "tables"

\* main() / index(): fetch_sharepoint_lists, then "if not lists_dict: return"
FetchLists ==
    /\ pc = "start"
    /\ \E resp \in ListResponses :
        /\ source.lists \in {Unasked, resp}
        /\ source' = [source EXCEPT !.lists = resp]
        /\ lists_dict' = fetch_sharepoint_lists(resp, entry)
    /\ calls' = fetch_data(calls, "lists")
    /\ pc' = AfterFetch(lists_dict')
    /\ UNCHANGED <<entry, relationships, nodes, edges, written, first,
                   descriptor, classified>>

\* one iteration of "for list_name, list_id in lists_dict.items()"
BuildTable ==
    /\ pc = "tables"
    /\ LET list == lists_dict[Len(nodes) + 1]
       IN  \E resp \in ColumnResponses(list.id) :
            /\ source.columns[list.id] \in {Unasked, resp}
            /\ source' = [source EXCEPT !.columns[list.id] = resp]
            /\ LET columns == fetch_columns(resp)
               IN  /\ relationships' =
                        relationships \o LookupRelationships(list.name, columns)
                   /\ nodes' = Append(nodes,
                        [name |-> list.name,
                         label |-> [header |-> list.name, rows |-> LabelRows(columns)],
                         shape |-> "plaintext"])
            /\ calls' = fetch_data(calls, list.id)
    /\ pc' = IF Len(nodes') = Len(lists_dict) THEN "edges" ELSE "tables"
    /\ UNCHANGED <<entry, lists_dict, edges, written, first,
                   descriptor, classified>>

\* the rest of the run: "for source_table, target_list_id, column_name in
\* relationships", graph.pipe() and the write of the image file
AddEdges ==
    /\ pc = "edges"
    /\ edges' = ResolveEdges(lists_dict, relationships)
    /\ written' = TRUE
    /\ pc' = "done"
    /\ UNCHANGED <<entry, source, calls, lists_dict, relationships, nodes, first,
                   descriptor, classified>>

Next == FetchLists \/ BuildTable \/ AddEdges

Spec == Init /\ [][Next]_vars

-----------------------------------------------------------------------------
(* The form-driven run after the command-line run, against the same source *)

\* the command-line run is over; the form of app.py is posted for the same
\* site: index() calls fetch_sharepoint_lists and view_results()
\* generate_uml_graph, as main() does
SwitchEntry ==
    /\ entry = "main"
    /\ pc \in {"done", "halted"}
    /\ first' = [pc |-> pc, lists_dict |-> lists_dict, nodes |-> nodes,
                 edges |-> edges]
    /\ entry' = "app"
    /\ pc' = "start"
    /\ calls' = << >>
    /\ lists_dict' = << >>
    /\ relationships' = << >>
    /\ nodes' = << >>
    /\ edges' = << >>
    /\ written' = FALSE
    /\ UNCHANGED <<source, descriptor, classified>>

NextBoth == Next \/ SwitchEntry

SpecBoth == Init /\ [][NextBoth]_vars

-----------------------------------------------------------------------------
(* get_column_type on its own *)

\* what the source puts under a type key
DetailOf(key) ==
    IF key = "lookup" THEN [listId |-> "L2"] ELSE [facet |-> key]

TypeKeys == {type_mappings[j] : j \in 1..Len(type_mappings)}

\* descriptors with any set of type keys, with or without a name
Descriptors ==
    {[k \in keys \cup other |-> IF k = "name" THEN "Title" ELSE DetailOf(k)] :
        keys \in SUBSET TypeKeys, other \in {{}, {"name"}}}

InitClassify ==
    /\ entry = "main"
    /\ source = NoSource
    /\ first = NoRun
    /\ descriptor \in Descriptors
    /\ classified = Pending
    /\ InitRun

Classify ==
    /\ classified = Pending
    /\ classified' = get_column_type(descriptor)
    /\ UNCHANGED <<entry, pc, source, calls, lists_dict, relationships, nodes,
                   edges, written, first, descriptor>>

NextClassify == Classify

SpecClassify == InitClassify /\ [][NextClassify]_vars

-----------------------------------------------------------------------------
(* Vocabulary of the properties *)

Range(s) == {s[j] : j \in DOMAIN s}

RetainedIds == {lists_dict[j].id : j \in 1..Len(lists_dict)}

\* the items of the collection listing the source returned
ListingItems ==
    IF source.lists.kind = "json" /\ "value" \in DOMAIN source.lists.body
    THEN source.lists.body.value ELSE << >>

\* the field descriptors the source returned for the j-th retained collection
ResponseOf(j) == source.columns[lists_dict[j].id]

SourceFields(j) ==
    IF ResponseOf(j).kind = "json" /\ "value" \in DOMAIN ResponseOf(j).body
    THEN ResponseOf(j).body.value ELSE << >>

FieldFailed(j) == ResponseOf(j).kind = "error" \/ ResponseOf(j) = Json(NoValueDict)

Count(seq, Test(_)) == Cardinality({j \in 1..Len(seq) : Test(seq[j])})

RowNames(j) == [r \in 1..Len(nodes[j].label.rows) |-> nodes[j].label.rows[r].name]

\* the graph the retained collections give when the j-th one has the
\* retained fields cols[j]: a node per collection with a row per field, and
\* an edge per lookup field whose listId is the id of a retained collection
NodeOf(j, cols) ==
    LET fields == cols[j]
    IN  [name |-> lists_dict[j].name,
         label |-> [header |-> lists_dict[j].name,
                    rows |-> [r \in 1..Len(fields) |->
                                 [name |-> fields[r].name,
                                  type |-> fields[r].type_details.type]]],
         shape |-> "plaintext"]

ExpectedNodes(cols) == [j \in 1..Len(lists_dict) |-> NodeOf(j, cols)]

Resolvable(col) ==
    /\ col.type_details.type = "lookup"
    /\ "listId" \in DOMAIN col.type_details.details
    /\ col.type_details.details.listId \in RetainedIds

EdgeOf(j, col) ==
    [source |-> lists_dict[j].name,
     target |-> (CHOOSE t \in Range(lists_dict) :
                    t.id = col.type_details.details.listId).name,
     label |-> col.name]

EdgesOf(j, cols) ==
    LET lookups == SelectSeq(cols[j], Resolvable)
    IN  [r \in 1..Len(lookups) |-> EdgeOf(j, lookups[r])]

RECURSIVE ExpectedEdgesFrom(_, _)
ExpectedEdgesFrom(j, cols) ==
    IF j > Len(lists_dict) THEN << >>
    ELSE EdgesOf(j, cols) \o ExpectedEdgesFrom(j + 1, cols)

RetainedFields == [j \in 1..Len(lists_dict) |-> fetch_columns(ResponseOf(j))]

-----------------------------------------------------------------------------
(* C1 *)

ClassifierOrder ==
    <<"text", "lookup", "dateTime", "number", "choice", "boolean", "person",
      "calculated">>

\* C1: get_column_type always returns a classification; its type is the
\* earliest key of text, lookup, dateTime, number, choice, boolean, person,
\* calculated that the descriptor holds and its details the descriptor's
\* value at that key; a descriptor with none of these keys is 'unknown'
\* with empty details.
C1_FirstMatchWins ==
    /\ classified = Pending => ENABLED Classify
    /\ classified # Pending =>
        /\ \A p \in 1..Len(ClassifierOrder) :
            (/\ ClassifierOrder[p] \in DOMAIN descriptor
             /\ \A q \in 1..(p - 1) : ClassifierOrder[q] \notin DOMAIN descriptor)
            => /\ classified.type = ClassifierOrder[p]
               /\ classified.details = descriptor[ClassifierOrder[p]]
        /\ (\A p \in 1..Len(ClassifierOrder) :
                ClassifierOrder[p] \notin DOMAIN descriptor)
            => classified = [type |-> "unknown", details |-> EmptyDict]

C1_Witness ==
    /\ classified # Pending
    /\ {"lookup", "dateTime", "calculated"} \subseteq DOMAIN descriptor
    /\ "text" \notin DOMAIN descriptor
    /\ classified.type = "lookup"

-----------------------------------------------------------------------------
(* C2 *)

\* C2: no node is named by a display name of the ignore-set and no edge
\* starts or ends at one, whatever collections the source returns.
C2_IgnoredCollectionsAbsent ==
    \A n \in LISTS_TO_IGNORE(entry) :
        /\ \A j \in 1..Len(lists_dict) : lists_dict[j].name # n
        /\ \A j \in 1..Len(nodes) : nodes[j].name # n
        /\ \A j \in 1..Len(edges) : edges[j].source # n /\ edges[j].target # n

\* the source returned an ignored collection, and a retained collection has
\* a lookup field that refers to it
C2_Witness ==
    /\ pc = "done"
    /\ \E item \in Range(ListingItems) :
        /\ {"displayName", "id"} \subseteq DOMAIN item
        /\ item.displayName \in LISTS_TO_IGNORE(entry)
        /\ \E r \in 1..Len(relationships) : relationships[r].target = item.id

-----------------------------------------------------------------------------
(* C3 *)

C3_Ignored(name) ==
    name \in COLUMNS_TO_IGNORE \/ Occurrences(name, "x003a") # {}

C3_Name(field) == Get(field, "name", "")

C3_Kept(field) == ~C3_Ignored(C3_Name(field))

\* C3: a field whose name is in COLUMNS_TO_IGNORE or contains 'x003a' gives
\* no row in any label and no relationship or edge, also when it is a
\* lookup field with a resolvable target; the rows of a collection are its
\* other fields, in the source's order.
C3_IgnoredFieldsOmitted ==
    /\ \A j \in 1..Len(nodes) :
        LET kept == SelectSeq(SourceFields(j), C3_Kept)
        IN  RowNames(j) = [r \in 1..Len(kept) |-> C3_Name(kept[r])]
    /\ \A r \in 1..Len(relationships) : ~C3_Ignored(relationships[r].column)
    /\ \A r \in 1..Len(edges) : ~C3_Ignored(edges[r].label)

\* a collection with an ignored lookup field whose target is retained,
\* followed by a field that is kept
C3_Witness ==
    /\ pc = "done"
    /\ \E j \in 1..Len(nodes) :
        /\ Len(SourceFields(j)) = 2
        /\ C3_Ignored(C3_Name(SourceFields(j)[1]))
        /\ "lookup" \in DOMAIN SourceFields(j)[1]
        /\ SourceFields(j)[1].lookup.listId \in RetainedIds
        /\ C3_Kept(SourceFields(j)[2])
        /\ Len(nodes[j].label.rows) = 1

-----------------------------------------------------------------------------
(* C4 *)

\* C4: the edges are exactly one per retained lookup field whose listId is
\* the id of a retained collection, from the field's collection to that
\* collection, labelled with the field name; nothing is merged and nothing
\* else is emitted.
C4_OneEdgePerResolvedLookup ==
    pc = "done" => edges = ExpectedEdgesFrom(1, RetainedFields)

\* two lookup fields between the same pair of collections, two edges
C4_Witness ==
    /\ pc = "done"
    /\ \E a, b \in 1..Len(edges) :
        /\ a # b
        /\ edges[a].source = edges[b].source
        /\ edges[a].target = edges[b].target
        /\ edges[a].source # edges[a].target

-----------------------------------------------------------------------------
(* C5 *)

C5_Dangling(rel) == rel.target \notin RetainedIds

C5_Resolved(rel) == rel.target \in RetainedIds

\* C5: a lookup field whose target id is the id of no retained collection
\* gives no edge, and the assembly goes on: every retained collection has
\* its node and every other lookup field its edge.
C5_DanglingDropped ==
    /\ pc = "edges" => ENABLED AddEdges
    /\ pc = "done" =>
        /\ written
        /\ Len(nodes) = Len(lists_dict)
        /\ \A j \in 1..Len(nodes) : nodes[j].name = lists_dict[j].name
        /\ Len(edges) = Count(relationships, C5_Resolved)
        /\ \A r \in 1..Len(relationships) :
            LET rel == relationships[r]
                SameField(x) == x.source = rel.source /\ x.column = rel.column
                SameEdge(e) == e.source = rel.source /\ e.label = rel.column
                ResolvedSame(x) == SameField(x) /\ C5_Resolved(x)
            IN  Count(edges, SameEdge) = Count(relationships, ResolvedSame)

\* a dangling lookup field beside a lookup field that gives an edge
C5_Witness ==
    /\ pc = "done"
    /\ \E r \in 1..Len(relationships) :
        /\ C5_Dangling(relationships[r])
        /\ \A e \in 1..Len(edges) : edges[e].label # relationships[r].column
    /\ edges # << >>

-----------------------------------------------------------------------------
(* C6 *)

\* the response with a failed field listing replaced by an empty field list
C6_AsEmpty(j) ==
    IF FieldFailed(j) THEN Json([value |-> << >>]) ELSE ResponseOf(j)

C6_Fields == [j \in 1..Len(lists_dict) |-> fetch_columns(C6_AsEmpty(j))]

\* C6: a collection whose field listing failed, or came without 'value',
\* is a node with an empty field table; the run goes on, and the graph is
\* the one an empty field list would have given.
C6_PartialFailureTolerated ==
    /\ \A j \in 1..Len(nodes) :
        FieldFailed(j) =>
            /\ nodes[j].name = lists_dict[j].name
            /\ nodes[j].label.rows = << >>
    /\ pc = "tables" => ENABLED BuildTable
    /\ pc = "halted" => lists_dict = << >>
    /\ pc = "done" =>
        /\ written
        /\ nodes = ExpectedNodes(C6_Fields)
        /\ edges = ExpectedEdgesFrom(1, C6_Fields)

\* the field listing of one collection failed, and an edge ends at it
C6_Witness ==
    /\ pc = "done"
    /\ \E j \in 1..Len(nodes) :
        /\ ResponseOf(j).kind = "error"
        /\ \E e \in 1..Len(edges) : edges[e].target = nodes[j].name

-----------------------------------------------------------------------------
(* C7 *)

C7_Unavailable ==
    \/ source.lists.kind = "error"
    \/ source.lists.kind = "json" /\ "value" \notin DOMAIN source.lists.body

-----------------------------------------------------------------------------
(* C8 *)

C8_WellFormed(item) == {"displayName", "id"} \subseteq DOMAIN item

C8_Named(field) == "name" \in DOMAIN field

C8_Nameless(field) == "name" \notin DOMAIN field

C8_EmptyName(row) == row.name = ""

C8_CollectionsExcluded ==
    /\ \A j \in 1..Len(lists_dict) :
        \E item \in Range(ListingItems) :
            /\ C8_WellFormed(item)
            /\ item.displayName = lists_dict[j].name
            /\ item.id = lists_dict[j].id
    /\ \A j \in 1..Len(nodes) : nodes[j].name = lists_dict[j].name
    /\ pc \in {"tables", "edges", "done"} => lists_dict # << >>

\* C8 as claimed: a collection without 'id' or 'displayName' has no node,
\* and a field without 'name' has no row and no edge.
C8_MalformedExcluded ==
    /\ C8_CollectionsExcluded
    /\ \A j \in 1..Len(nodes) :
        /\ Len(nodes[j].label.rows) <= Count(SourceFields(j), C8_Named)
        /\ Count(nodes[j].label.rows, C8_EmptyName) = 0
    /\ \A r \in 1..Len(edges) : edges[r].label # ""

\* C8 as amended: a collection without 'id' or 'displayName' has no node
\* and the run goes on; a field without 'name' is kept under the empty
\* name: it has a row, and an edge with an empty label when it is a lookup
\* field whose target is retained.
C8_NamelessFieldsKept ==
    /\ C8_CollectionsExcluded
    /\ \A j \in 1..Len(nodes) :
        Count(nodes[j].label.rows, C8_EmptyName)
            = Count(SourceFields(j), C8_Nameless)
    /\ pc = "done" =>
        \A j \in 1..Len(nodes) :
            LET NamelessLookup(f) ==
                    /\ C8_Nameless(f)
                    /\ get_column_type(f).type = "lookup"
                    /\ Get(get_column_type(f).details, "listId", NoneStr)
                           \in RetainedIds
                FromHere(e) == e.source = nodes[j].name /\ e.label = ""
            IN  Count(edges, FromHere) = Count(SourceFields(j), NamelessLookup)

\* the listing held a malformed item beside a retained collection, whose
\* nameless lookup field gave an edge
C8_Witness ==
    /\ pc = "done"
    /\ \E item \in Range(ListingItems) : ~C8_WellFormed(item)
    /\ \E e \in 1..Len(edges) : edges[e].label = ""

-----------------------------------------------------------------------------
(* C9 *)

C9_Ids(n) == [j \in 1..n |-> lists_dict[j].id]

C9_OnePerCollection ==
    /\ pc # "start" => calls = <<"lists">> \o C9_Ids(Len(nodes))
    /\ \A j \in 1..Len(nodes) : nodes[j].name = lists_dict[j].name
    /\ pc \in {"edges", "done"} => Len(nodes) = Len(lists_dict)

\* C9 as claimed: one field listing per retained collection, in the map's
\* order, and all of them done before any node or edge is emitted.
C9_CallsBeforeAssembly ==
    /\ C9_OnePerCollection
    /\ (nodes # << >> \/ edges # << >>) =>
        calls = <<"lists">> \o C9_Ids(Len(lists_dict))

\* C9 as amended: one field listing per retained collection, in the map's
\* order, none repeated or skipped and no further collection listing; the
\* node of a collection is emitted right after its own field listing,
\* before the next collection's; all of them are done before any edge is
\* emitted.
C9_CallsBeforeEdges ==
    /\ C9_OnePerCollection
    /\ pc = "tables" => Len(nodes) < Len(lists_dict)
    /\ edges # << >> => calls = <<"lists">> \o C9_Ids(Len(lists_dict))
    /\ pc = "done" => calls = <<"lists">> \o C9_Ids(Len(lists_dict))

\* two retained collections, and an edge
C9_Witness ==
    /\ pc = "done"
    /\ Len(lists_dict) = 2
    /\ Len(calls) = 3
    /\ edges # << >>

-----------------------------------------------------------------------------
(* C10 *)

\* C10: against the same source, the form-driven run retains the
\* collections, and builds the nodes and edges, of the command-line run.
C10_EntryPointsEquivalent ==
    (entry = "app" /\ pc \in {"done", "halted"}) =>
        /\ lists_dict = first.lists_dict
        /\ nodes = first.nodes
        /\ edges = first.edges

=============================================================================
